---- MODULE Spec2Model ----
(***************************************************************************)
(* Model of the sandhi splitter of src/src/main.rs: read_sandhi_rules      *)
(* builds a MultiMap from the rows of a TSV rule source, split walks the   *)
(* input and pushes candidate (prefix, suffix) pairs, main drives both.    *)
(*                                                                         *)
(* A Rust String is modelled as the sequence of its UTF-8 bytes.  A byte   *)
(* is written as a short string: an ASCII byte as its character, the two   *)
(* bytes of U+0101 (a with macron) as "C4" and "81".                       *)
(***************************************************************************)
EXTENDS Integers, Sequences, FiniteSets, TLC

VARIABLES argv, source, input, pending, rules, res, tags,
          len_longest_key, i, j, k, pc, msg

vars == <<argv, source, input, pending, rules, res, tags,
          len_longest_key, i, j, k, pc, msg>>

-----------------------------------------------------------------------------
(* Bounds of the model.                                                    *)

\* rows of the rule source, the first row included
MaxRows == 3
\* characters of the input text
MaxLen == 3

-----------------------------------------------------------------------------
(* Strings.                                                                *)

\* bytes 0x80..0xBF continue a multi-byte character; "81" is the only one here
ContinuationBytes == {"81"}

AMacron == <<"C4", "81">>

\* the characters an input text is made of
InputChars == {<<"t">>, <<"e">>, AMacron}

RECURSIVE Flatten(_)
Flatten(cs) == IF cs = <<>> THEN <<>> ELSE Head(cs) \o Flatten(Tail(cs))

\* well-formed texts of at most MaxLen characters
Texts == {Flatten(cs) : cs \in UNION {[1..n -> InputChars] : n \in 0..MaxLen}}

\* the rows a rule source is made of: <<left, right, combined>>
RulePool ==
    { << <<"a">>, <<"i">>, <<"e">> >>,
      << <<"a">>, <<"i">>, <<"t", " ", "e">> >>,
      << <<"t">>, <<"i">>, <<"t", "e">> >>,
      << <<"a">>, <<"i">>, <<" ">> >> }

Sources == UNION {[1..n -> RulePool] : n \in 0..MaxRows}

\* str::is_char_boundary
IsCharBoundary(s, idx) ==
    \/ idx = 0
    \/ idx = Len(s)
    \/ idx < Len(s) /\ s[idx + 1] \notin ContinuationBytes

\* &s[a..b] does not panic
SliceOk(s, a, b) ==
    a <= b /\ b <= Len(s) /\ IsCharBoundary(s, a) /\ IsCharBoundary(s, b)

\* &s[a..b], byte offsets, b exclusive
Slice(s, a, b) == SubSeq(s, a + 1, b)

\* s.replace(" ", "")
RemoveSpaces(s) == SelectSeq(s, LAMBDA b : b /= " ")

Min(a, b) == IF a <= b THEN a ELSE b

MaxOf(S) == CHOOSE x \in S : \A y \in S : y <= x

BoundaryMsg == "byte index is not a char boundary"

-----------------------------------------------------------------------------
(* MultiMap<String, (String, String)>.                                     *)

EmptyMap == [key \in {} |-> <<>>]

\* a wrong insert: the new value goes in front of the key's vector
InsertFront(m, key, v) ==
    [x \in DOMAIN m \cup {key} |->
        IF x = key
        THEN (IF key \in DOMAIN m THEN <<v>> \o m[key] ELSE <<v>>)
        ELSE m[x]]

\* MultiMap::insert: the value is pushed at the end of the key's vector
Insert(m, key, v) ==
    [x \in DOMAIN m \cup {key} |->
        IF x = key
        THEN (IF key \in DOMAIN m THEN Append(m[key], v) ELSE <<v>>)
        ELSE m[x]]

\* a wrong row insertion: the space-stripped key is never registered
InsertRowNoStripped(m, row) == Insert(m, row[3], <<row[1], row[2]>>)

\* a wrong row insertion: the space-stripped key is registered unconditionally
InsertRowAlwaysStripped(m, row) ==
    Insert(Insert(m, row[3], <<row[1], row[2]>>),
           RemoveSpaces(row[3]), <<row[1], row[2]>>)

\* the body of the loop over the records
InsertRow(m, row) ==
    LET first == row[1]
        second == row[2]
        result == row[3]
        result_no_spaces == RemoveSpaces(row[3])
        m1 == Insert(m, result, <<first, second>>)
    IN  IF result_no_spaces /= result
        THEN Insert(m1, result_no_spaces, <<first, second>>)
        ELSE m1

\* a reader built with has_headers(false): every row is a record
RecordsNoHeader(src) == src

\* rdr.records() of a reader built with the defaults of ReaderBuilder:
\* has_headers is true, the first row is the header and is never yielded
Records(src) == IF src = <<>> THEN <<>> ELSE Tail(src)

-----------------------------------------------------------------------------
(* The pieces of split.                                                    *)

\* a wrong position loop: 0..=len_input
PositionEndInclusive(s) == Len(s) + 1

\* the end (exclusive) of the position loop
PositionEnd(s) == Len(s)

\* the end (exclusive) of the window loop over j
WindowEnd(s, pos, longest) == Min(Len(s), pos + longest)

\* the baseline candidate of position pos
Baseline(s, pos) == <<Slice(s, 0, pos), Slice(s, pos, Len(s))>>

\* a wrong sandhi candidate: the rest of the input starts at pos, not at win_end
SandhiKeepWindow(s, pos, win_end, pair) ==
    <<Slice(s, 0, pos) \o pair[1], pair[2] \o Slice(s, pos, Len(s))>>

\* the sandhi candidate of the window [pos, win_end) and one pair of its key
Sandhi(s, pos, win_end, pair) ==
    <<Slice(s, 0, pos) \o pair[1], pair[2] \o Slice(s, win_end, Len(s))>>

BaseTag(pos) == [kind |-> "base", pos |-> pos, win |-> 0, idx |-> 0]

SandhiTag(pos, win, idx) == [kind |-> "sandhi", pos |-> pos, win |-> win, idx |-> idx]

-----------------------------------------------------------------------------
(* The state machine.                                                      *)

Init ==
    /\ argv \in {<<>>} \cup {<<t>> : t \in Texts}
    /\ source \in Sources
    /\ input = <<>>
    /\ pending = <<>>
    /\ rules = EmptyMap
    /\ res = <<>>
    /\ tags = <<>>
    /\ len_longest_key = 0
    /\ i = 0
    /\ j = 0
    /\ k = 0
    /\ pc = "main"
    /\ msg = ""

\* main: the text is the first argument
MainStart ==
    /\ pc = "main"
    /\ IF argv = <<>>
       THEN /\ pc' = "panic"
            /\ msg' = "No text provided."
            /\ input' = input
       ELSE /\ pc' = "open"
            /\ msg' = msg
            /\ input' = argv[1]
    /\ UNCHANGED <<argv, source, pending, rules, res, tags, len_longest_key, i, j, k>>

\* read_sandhi_rules: the reader is opened; an unreadable file is an Err
OpenReader ==
    /\ pc = "open"
    /\ \E readable \in BOOLEAN :
         IF readable
         THEN /\ pending' = Records(source)
              /\ rules' = EmptyMap
              /\ pc' = "read"
              /\ msg' = msg
         ELSE /\ pending' = pending
              /\ rules' = rules
              /\ pc' = "exit1"
              /\ msg' = "io error"
    /\ UNCHANGED <<argv, source, input, res, tags, len_longest_key, i, j, k>>

\* read_sandhi_rules: one record of the loop
ReadRow ==
    /\ pc = "read"
    /\ pending /= <<>>
    /\ rules' = InsertRow(rules, Head(pending))
    /\ pending' = Tail(pending)
    /\ UNCHANGED <<argv, source, input, res, tags, len_longest_key, i, j, k, pc, msg>>

\* read_sandhi_rules returns Ok(rules); main calls split
ReadDone ==
    /\ pc = "read"
    /\ pending = <<>>
    /\ pc' = "split"
    /\ UNCHANGED <<argv, source, input, pending, rules, res, tags,
                   len_longest_key, i, j, k, msg>>

\* a wrong start of split: unwrap_or(0) instead of expect
SplitStartUnwrapOr ==
    /\ pc = "split"
    /\ res' = <<>>
    /\ tags' = <<>>
    /\ len_longest_key' =
          IF DOMAIN rules = {} THEN 0 ELSE MaxOf({Len(key) : key \in DOMAIN rules})
    /\ i' = 0
    /\ pc' = "outer"
    /\ UNCHANGED <<argv, source, input, pending, rules, j, k, msg>>

\* split: the result vector and the longest key; an empty map panics
SplitStart ==
    /\ pc = "split"
    /\ res' = <<>>
    /\ tags' = <<>>
    /\ IF DOMAIN rules = {}
       THEN /\ pc' = "panic"
            /\ msg' = "Map is empty"
            /\ UNCHANGED <<len_longest_key, i>>
       ELSE /\ len_longest_key' = MaxOf({Len(key) : key \in DOMAIN rules})
            /\ i' = 0
            /\ pc' = "outer"
            /\ msg' = msg
    /\ UNCHANGED <<argv, source, input, pending, rules, j, k>>

\* split: the head of the position loop and the baseline candidate
Outer ==
    /\ pc = "outer"
    /\ IF i < PositionEnd(input)
       THEN IF SliceOk(input, 0, i) /\ SliceOk(input, i, Len(input))
            THEN /\ res' = Append(res, Baseline(input, i))
                 /\ tags' = Append(tags, BaseTag(i))
                 /\ j' = i
                 /\ pc' = "inner"
                 /\ msg' = msg
            ELSE /\ pc' = "panic"
                 /\ msg' = BoundaryMsg
                 /\ UNCHANGED <<res, tags, j>>
       ELSE /\ pc' = "done"
            /\ UNCHANGED <<res, tags, j, msg>>
    /\ UNCHANGED <<argv, source, input, pending, rules, len_longest_key, i, k>>

\* split: the head of the window loop and the lookup of input[i..j]
Inner ==
    /\ pc = "inner"
    /\ IF j < WindowEnd(input, i, len_longest_key)
       THEN IF SliceOk(input, i, j)
            THEN IF Slice(input, i, j) \in DOMAIN rules
                 THEN /\ k' = 1
                      /\ pc' = "pairs"
                      /\ UNCHANGED <<i, j, msg>>
                 ELSE /\ j' = j + 1
                      /\ UNCHANGED <<i, k, pc, msg>>
            ELSE /\ pc' = "panic"
                 /\ msg' = BoundaryMsg
                 /\ UNCHANGED <<i, j, k>>
       ELSE /\ i' = i + 1
            /\ pc' = "outer"
            /\ UNCHANGED <<j, k, msg>>
    /\ UNCHANGED <<argv, source, input, pending, rules, res, tags, len_longest_key>>

\* split: one pair of the key that matched
Pairs ==
    /\ pc = "pairs"
    /\ LET pairs == rules[Slice(input, i, j)]
       IN  IF k <= Len(pairs)
           THEN /\ res' = Append(res, Sandhi(input, i, j, pairs[k]))
                /\ tags' = Append(tags, SandhiTag(i, j - i, k))
                /\ k' = k + 1
                /\ UNCHANGED <<j, pc>>
           ELSE /\ j' = j + 1
                /\ pc' = "inner"
                /\ UNCHANGED <<res, tags, k>>
    /\ UNCHANGED <<argv, source, input, pending, rules, len_longest_key, i, msg>>

Next ==
    \/ MainStart
    \/ OpenReader
    \/ ReadRow
    \/ ReadDone
    \/ SplitStart
    \/ Outer
    \/ Inner
    \/ Pairs

Spec == Init /\ [][Next]_vars

-----------------------------------------------------------------------------
(* Vocabulary of the properties.                                           *)

\* lookup(key): the pairs of the key, nothing for an absent key
Lookup(m, key) == IF key \in DOMAIN m THEN m[key] ELSE <<>>

\* the records the table is built from: the rows the reader yields
DataRows == IF source = <<>> THEN <<>> ELSE Tail(source)

\* record rec registers its pair under key
RegistersUnder(rec, key) ==
    \/ rec[3] = key
    \/ RemoveSpaces(rec[3]) = key /\ RemoveSpaces(rec[3]) /= rec[3]

\* the pairs of the records of recs that register under key, in record order
RECURSIVE Registered(_, _)
Registered(recs, key) ==
    IF recs = <<>> THEN <<>>
    ELSE (IF RegistersUnder(Head(recs), key)
          THEN << <<Head(recs)[1], Head(recs)[2]>> >>
          ELSE <<>>) \o Registered(Tail(recs), key)

\* every key a pool row can register, and some that none registers
KeyUniverse ==
    {r[3] : r \in RulePool} \cup {RemoveSpaces(r[3]) : r \in RulePool}
        \cup {<<"t">>, <<"e", "t">>, <<"a">>}

RECURSIVE IsSubseq(_, _)
IsSubseq(a, b) ==
    IF a = <<>> THEN TRUE
    ELSE IF b = <<>> THEN FALSE
    ELSE IF Head(a) = Head(b) THEN IsSubseq(Tail(a), Tail(b))
    ELSE IsSubseq(a, Tail(b))

InSeq(x, s) == \E m \in 1..Len(s) : s[m] = x

\* the table is complete: read_sandhi_rules has returned it
Built == pc \in {"split", "outer", "inner", "pairs", "done"}
            \/ (pc = "panic" /\ msg \in {"Map is empty", BoundaryMsg})

\* split has been entered
SplitEntered == pc \in {"outer", "inner", "pairs", "done"}
                   \/ (pc = "panic" /\ msg \in {"Map is empty", BoundaryMsg})

\* split has returned its vector to main
Returned == pc = "done"

\* tag a is emitted before tag b in the order: position, then baseline
\* before sandhi, then window length, then index within the key
TagBefore(a, b) ==
    \/ a.pos < b.pos
    \/ a.pos = b.pos /\ a.kind = "base" /\ b.kind = "sandhi"
    \/ a.pos = b.pos /\ a.kind = "sandhi" /\ b.kind = "sandhi" /\ a.win < b.win
    \/ a.pos = b.pos /\ a.kind = "sandhi" /\ b.kind = "sandhi" /\ a.win = b.win
          /\ a.idx < b.idx

-----------------------------------------------------------------------------
(* Properties of split.                                                    *)

\* the sandhi candidates of window [p, p + w) that the table calls for are all in res
WindowCovered(p, w) ==
    LET pairs == Lookup(rules, Slice(input, p, p + w))
    IN  \A n \in 1..Len(pairs) : InSeq(Sandhi(input, p, p + w, pairs[n]), res)

\* C1: with a non-empty table of maximum key length L, the returned vector
\* holds, for every position p and every window length w with 1 <= w <= L and
\* p + w <= len(input), the candidate (input[0..p] + first, second +
\* input[p+w..]) of every pair registered under input[p..p+w]; with the single
\* rule ("a", "i", "e") and input "te" it is [("", "te"), ("t", "e"), ("ta", "i")].
C1_EveryWindowUpToLongest ==
    Returned =>
        /\ \A p \in 0..Len(input) :
             \A w \in 1..len_longest_key :
                p + w <= Len(input) => WindowCovered(p, w)
        /\ (DataRows = << << <<"a">>, <<"i">>, <<"e">> >> >> /\ input = <<"t", "e">>)
              => res = << << <<>>, <<"t", "e">> >>,
                          << <<"t">>, <<"e">> >>,
                          << <<"t", "a">>, <<"i">> >> >>

\* the candidate that tag t stands for, its pair taken from the records in
\* registration order
CandidateOfTag(t) ==
    IF t.kind = "base"
    THEN <<Slice(input, 0, t.pos), Slice(input, t.pos, Len(input))>>
    ELSE LET key == Slice(input, t.pos, t.pos + t.win)
             reg == Registered(DataRows, key)
         IN  IF t.idx \in 1..Len(reg)
             THEN <<Slice(input, 0, t.pos) \o reg[t.idx][1],
                    reg[t.idx][2] \o Slice(input, t.pos + t.win, Len(input))>>
             ELSE <<"no such registration">>

\* C2: the returned candidates are ordered by position ascending; within a
\* position the baseline comes first, then the sandhi candidates by increasing
\* window length, and within one window by the order in which the records
\* registered their pairs under that key.
C2_EmissionOrder ==
    Returned =>
        /\ Len(tags) = Len(res)
        /\ \A m \in 1..Len(res) : res[m] = CandidateOfTag(tags[m])
        /\ \A m, n \in 1..Len(tags) : m < n => TagBefore(tags[m], tags[n])

\* C2 happens: two pairs of one key were emitted at one window, and a later
\* position followed
C2_Witness ==
    /\ Returned
    /\ \E m, n \in 1..Len(tags) :
          /\ tags[m].kind = "sandhi" /\ tags[m].idx = 2
          /\ res[m] /= res[m - 1]
          /\ tags[n].pos > tags[m].pos

\* C3 as stated: a split entered with an empty table ends in a typed
\* EmptyTableError returned to the caller, with no candidate.
C3_TypedEmptyTableError ==
    (SplitEntered /\ DOMAIN rules = {}) =>
        (pc = "exit1" /\ msg = "EmptyTableError" /\ res = <<>>)

\* C3 amended: a split entered with an empty table panics with "Map is empty";
\* nothing is returned to the caller, neither a candidate nor an empty vector.
C3_EmptyTablePanics ==
    (SplitEntered /\ DOMAIN rules = {}) =>
        (pc = "panic" /\ msg = "Map is empty" /\ res = <<>> /\ ~Returned)

\* C3 happens: split was entered for the empty input with a table built from
\* zero records
C3_Witness ==
    /\ pc = "panic" /\ msg = "Map is empty"
    /\ DataRows = <<>>
    /\ input = <<>>

\* C4: on return, every position p with 0 <= p < n has exactly one baseline
\* candidate, (input[0..p], input[p..n]), whose two parts concatenate to the
\* input; position n has none, and no candidate is (input, "").
C4_Baselines ==
    Returned =>
        /\ \A p \in 0..(Len(input) - 1) :
              /\ Cardinality({m \in 1..Len(tags) : tags[m] = BaseTag(p)}) = 1
              /\ \A m \in 1..Len(tags) :
                    tags[m] = BaseTag(p) =>
                        /\ res[m] = <<SubSeq(input, 1, p), SubSeq(input, p + 1, Len(input))>>
                        /\ res[m][1] \o res[m][2] = input
        /\ \A m \in 1..Len(tags) :
              /\ tags[m].kind = "base" => tags[m].pos \in 0..(Len(input) - 1)
              /\ res[m] /= <<input, <<>>>>

\* C4 happens: split returned for a three-byte input
C4_Witness ==
    /\ Returned
    /\ Len(input) = 3
    /\ Cardinality({m \in 1..Len(tags) : tags[m].kind = "base"}) = 3

\* the string c with the n bytes at offset p replaced by key
Substitute(c, p, n, key) == SubSeq(c, 1, p) \o key \o SubSeq(c, p + n + 1, Len(c))

\* candidate cand comes from window [p, q) and the pair at index n of its key
ComesFrom(cand, p, q, n) ==
    LET key == Slice(input, p, q)
        pair == rules[key][n]
    IN  /\ cand[1] = SubSeq(input, 1, p) \o pair[1]
        /\ cand[2] = pair[2] \o SubSeq(input, q + 1, Len(input))
        /\ Substitute(cand[1] \o cand[2], p, Len(pair[1]) + Len(pair[2]), key) = input

\* C5: every returned non-baseline candidate (p, s) comes from a position, a
\* window [i, j) and a pair (first, second) registered under input[i..j], with
\* p = input[0..i] + first and s = second + input[j..]; replacing first+second
\* by the key in p+s gives back the input.
C5_SandhiProvenance ==
    Returned =>
        \A m \in 1..Len(res) :
            tags[m].kind = "sandhi" =>
                \E p \in 0..Len(input) : \E q \in p..Len(input) :
                    /\ Slice(input, p, q) \in DOMAIN rules
                    /\ \E n \in 1..Len(rules[Slice(input, p, q)]) :
                          ComesFrom(res[m], p, q, n)

\* C5 happens: a sandhi candidate of a non-empty window was returned
C5_Witness ==
    /\ Returned
    /\ \E m \in 1..Len(tags) : tags[m].kind = "sandhi" /\ tags[m].win = 2

\* C9 as stated: with a non-empty table split never fails: every slice offset
\* is a character boundary.
C9_NoFailureOnWellFormedInput ==
    (SplitEntered /\ DOMAIN rules /= {}) => pc /= "panic"

-----------------------------------------------------------------------------
(* Properties of the table.                                                *)

\* C6: once the table is built, lookup of every key returns exactly the pairs
\* of the records whose combined form is the key, or whose combined form with
\* the spaces removed is the key and differs from the combined form, once per
\* such record and in record order; every other key returns nothing.
C6_LookupFidelity ==
    Built =>
        /\ DOMAIN rules \subseteq KeyUniverse
        /\ \A key \in KeyUniverse : Lookup(rules, key) = Registered(DataRows, key)

\* C6 happens: two records registered under one key, one of them through its
\* space-stripped form, and a record without spaces is in the table as well
C6_Witness ==
    /\ Built
    /\ \E key \in DOMAIN rules : Len(rules[key]) = 2 /\ rules[key][1] /= rules[key][2]
    /\ \E n \in 1..Len(DataRows) : RemoveSpaces(DataRows[n][3]) /= DataRows[n][3]

\* C7 as stated: for a record whose combined form differs from its
\* space-stripped form, lookup of the stripped form returns the same pairs as
\* lookup of the combined form.
C7_StrippedEqualsWritten ==
    Built =>
        \A n \in 1..Len(DataRows) :
            LET c == DataRows[n][3]
            IN  RemoveSpaces(c) /= c =>
                    Lookup(rules, RemoveSpaces(c)) = Lookup(rules, c)

\* C7 amended: lookup of the stripped form returns every pair that lookup of
\* the combined form returns, in the same relative order (and further pairs
\* when other records register under the stripped form), and the record's own
\* pair is among both.
C7_StrippedContainsWritten ==
    Built =>
        \A n \in 1..Len(DataRows) :
            LET c == DataRows[n][3]
                pair == <<DataRows[n][1], DataRows[n][2]>>
            IN  RemoveSpaces(c) /= c =>
                    /\ InSeq(pair, Lookup(rules, c))
                    /\ InSeq(pair, Lookup(rules, RemoveSpaces(c)))
                    /\ IsSubseq(Lookup(rules, c), Lookup(rules, RemoveSpaces(c)))

\* C7 happens: a record with a space in its combined form was registered, and
\* its stripped key holds more pairs than its written key
C7_Witness ==
    /\ Built
    /\ \E n \in 1..Len(DataRows) :
          LET c == DataRows[n][3]
          IN  /\ RemoveSpaces(c) /= c
              /\ Len(Lookup(rules, RemoveSpaces(c))) > Len(Lookup(rules, c))

\* C8 as stated: every registered key has length >= 1, and the search bound
\* of split is the maximum length over the registered keys.
C8_NoEmptyKey ==
    /\ Built => \A key \in DOMAIN rules : Len(key) >= 1
    /\ pc \in {"outer", "inner", "pairs", "done"} =>
          /\ \E key \in DOMAIN rules : Len(key) = len_longest_key
          /\ \A key \in DOMAIN rules : Len(key) <= len_longest_key

\* C10 as stated: every row of the source, the first included, has its
\* combined form registered as a key that maps to its pair.
C10_EveryRowIsData ==
    Built =>
        \A n \in 1..Len(source) :
            InSeq(<<source[n][1], source[n][2]>>, Lookup(rules, source[n][3]))

\* C10 amended: the first row of the source is consumed as the header and is
\* not registered; every later row has its combined form registered as a key
\* that maps to its pair, and every registered key comes from a later row.
C10_EveryRowButTheFirstIsData ==
    Built =>
        /\ \A n \in 2..Len(source) :
              InSeq(<<source[n][1], source[n][2]>>, Lookup(rules, source[n][3]))
        /\ \A key \in DOMAIN rules :
              \E n \in 2..Len(source) : key \in {source[n][3], RemoveSpaces(source[n][3])}
        /\ \A key \in KeyUniverse :
              Len(Lookup(rules, key)) <= (IF source = <<>> THEN 0 ELSE Len(source) - 1)

\* C10 happens: a source of three rows was read, and the key of its first
\* row is not in the table
C10_Witness ==
    /\ Built
    /\ Len(source) = 3
    /\ source[1][3] \notin DOMAIN rules
    /\ source[2][3] \in DOMAIN rules /\ source[3][3] \in DOMAIN rules

====
